---- MODULE Spec2Model ----
(***************************************************************************)
(* A model of dvc/tree/azure.py: the AzureTree storage backend.            *)
(*                                                                         *)
(* The specifications of the module:                                       *)
(*   Spec        one caller runs the tree operations (exists, isfile,      *)
(*               isdir, _list_paths, walk_files, remove) against a         *)
(*               container of blobs; each action is one whole call.        *)
(*   SpecThreads several threads read the blob_service property of one     *)
(*               AzureTree; the steps are the points at which threads can  *)
(*               interleave (attribute lookup, lock acquisition, the body  *)
(*               of the property run under the lock).                      *)
(*   FairThreads SpecThreads, where a thread holding the lock runs on.     *)
(*                                                                         *)
(* Strings are sequences of character codes, so that prefix tests, the     *)
(* appended delimiter and the service's lexicographic listing order are    *)
(* computed and not assumed.                                               *)
(***************************************************************************)
EXTENDS Integers, Sequences, FiniteSets, TLC

VARIABLES
    store,      \* names of the blobs in the container
    container,  \* TRUE when the container exists on the service
    session,    \* instance __dict__["blob_service"]: 0 = absent, else the client
    last,       \* the last tree operation: its arguments and what it gave
    pc,         \* per thread: where it is in reading self.blob_service
    lock,       \* the threading.Lock of wrap_prop: 0 = free, else its holder
    got,        \* per thread: the client its last read returned (0 = none)
    nbuilt,     \* how many clients were built and returned by the property body
    check       \* per thread: the last container check it ran

vars == <<store, container, session, last, pc, lock, got, nbuilt, check>>

----------------------------------------------------------------------------
(* Bounds of the model *)

MaxBlobs == 2
NumThreads == 2

Threads == 1..NumThreads

(* Character codes: '-' = 45, '/' = 47, 'a' = 97.  '-' sorts before '/'. *)
Slash == 47

Keys ==
    { <<97>>, <<97, 45>>, <<97, 47>>, <<97, 97>>, <<97, 47, 97>>, <<97, 97, 47>> }

Paths == Keys \cup { <<>>, <<97, 47, 97, 47>> }

Stores == { s \in SUBSET Keys : Cardinality(s) <= MaxBlobs }

LIST_OBJECT_PAGE_SIZE == 5000

NoPage == [given |-> FALSE, n |-> 0]

PageOf(n) == [given |-> TRUE, n |-> n]

PageRequests == { NoPage } \cup { PageOf(n) : n \in {5000, 5001, 50000} }

scheme == "azure"

Schemes == { "azure", "s3" }

----------------------------------------------------------------------------
(* Python str operations used by the tree *)

EndsWithSlash(s) == Len(s) > 0 /\ s[Len(s)] = Slash

StartsWith(s, p) == Len(p) <= Len(s) /\ SubSeq(s, 1, Len(p)) = p

AppendSlash(s) == s \o <<Slash>>

(* a / b with both operands str: str defines no __truediv__, so Python     *)
(* raises TypeError.  path_info.path is a str: the same attribute is       *)
(* given .endswith("/"), += "/" and == against blob names elsewhere in     *)
(* the class.                                                              *)
StrDiv(a, b) == [raised |-> "TypeError", value |-> a]

(* Python == between a str and a blob object of the listing: values of     *)
(* different types are never equal.                                        *)
Str(s) == [type |-> "str", name |-> s]

Blob(k) == [type |-> "BlobProperties", name |-> k]

PyEq(a, b) == IF a.type # b.type THEN FALSE ELSE a.name = b.name

----------------------------------------------------------------------------
(* The service's listing: the blobs whose name starts with the prefix, in  *)
(* lexicographic order of their names.                                     *)

MinLen(a, b) == IF Len(a) < Len(b) THEN Len(a) ELSE Len(b)

LexLess(a, b) ==
    \E i \in 1..(MinLen(a, b) + 1) :
        /\ \A j \in 1..(i - 1) : a[j] = b[j]
        /\ \/ i > Len(a) /\ i <= Len(b)
           \/ i <= Len(a) /\ i <= Len(b) /\ a[i] < b[i]

RECURSIVE SortKeys(_)
SortKeys(S) ==
    IF S = {} THEN <<>>
    ELSE LET m == CHOOSE x \in S : \A y \in S : x = y \/ LexLess(x, y)
         IN <<m>> \o SortKeys(S \ {m})

list_blobs(blobs, name_starts_with) ==
    LET names == SortKeys({ k \in blobs : StartsWith(k, name_starts_with) })
    IN [i \in 1..Len(names) |-> Blob(names[i])]

----------------------------------------------------------------------------
(* The container check of the blob_service property, and what a caller is  *)
(* handed when it reads the property.                                      *)

HttpStatusCodes == {403, 500}

(* What get_container_properties can answer for a container that does or   *)
(* does not exist: nothing raised, ResourceNotFoundError, or another       *)
(* HttpResponseError with a status code.                                   *)
Responses(cont) ==
    (IF cont THEN { [exc |-> "none", status_code |-> 200] }
             ELSE { [exc |-> "ResourceNotFoundError", status_code |-> 404] })
    \cup { [exc |-> "HttpResponseError", status_code |-> c] : c \in HttpStatusCodes }

(* blob_service with no allowance for status 403: every HttpResponseError  *)
(* that is not ResourceNotFoundError is raised again.                      *)
blob_service_Raises403(r, cont) ==
    IF r.exc = "none"
    THEN [raised |-> "none", container |-> cont, created |-> FALSE, calls |-> 1]
    ELSE IF r.exc = "ResourceNotFoundError"
    THEN [raised |-> "none", container |-> TRUE, created |-> TRUE, calls |-> 2]
    ELSE [raised |-> "HttpResponseError", container |-> cont, created |-> FALSE,
          calls |-> 1]

(* The body of the property for one response r of the container check.    *)
(* The except clauses are tried in order: ResourceNotFoundError first.     *)
blob_service(r, cont) ==
    IF r.exc = "none"
    THEN [raised |-> "none", container |-> cont, created |-> FALSE, calls |-> 1]
    ELSE IF r.exc = "ResourceNotFoundError"
    THEN [raised |-> "none", container |-> TRUE, created |-> TRUE, calls |-> 2]
    ELSE IF r.status_code # 403
    THEN [raised |-> "HttpResponseError", container |-> cont, created |-> FALSE,
          calls |-> 1]
    ELSE [raised |-> "none", container |-> cont, created |-> FALSE, calls |-> 1]

(* self.blob_service read by the only caller of Spec: the cached client    *)
(* when the instance holds one, else the body run under the free lock.     *)
ReadSession(r) ==
    IF session # 0
    THEN [raised |-> "none", session |-> session, container |-> container,
          calls |-> 0]
    ELSE LET b == blob_service(r, container)
         IN [raised |-> b.raised,
             session |-> IF b.raised = "none" THEN 1 ELSE 0,
             container |-> b.container,
             calls |-> b.calls]

----------------------------------------------------------------------------
(* The tree operations.  Each takes svc, what reading self.blob_service    *)
(* gives if the operation gets that far, and returns a record: the         *)
(* exception raised ("none" if none), the value returned or yielded, the   *)
(* page size handed to list_blobs, whether self.blob_service was read      *)
(* (used), the requests made on the container (calls) and the names        *)
(* deleted (del).  last.calls adds the requests of the container check.    *)

R0 ==
    [raised |-> "none", outBool |-> FALSE, outSeq |-> <<>>, page |-> NoPage,
     used |-> FALSE, calls |-> 0, del |-> {}]

(* ClampPage with the cap left out *)
ClampPage_Unclamped(items_per_page) == items_per_page

ClampPage(items_per_page) ==
    IF items_per_page.given /\ items_per_page.n > LIST_OBJECT_PAGE_SIZE
    THEN PageOf(LIST_OBJECT_PAGE_SIZE)
    ELSE items_per_page

(* container_client.list_blobs through the session: the session's error    *)
(* if it could not be built, ResourceNotFoundError from the service if the *)
(* container does not exist, else the listing.                             *)
ListCall(svc, blobs, prefix, page) ==
    IF svc.raised # "none"
    THEN [R0 EXCEPT !.raised = svc.raised, !.used = TRUE]
    ELSE IF ~svc.container
    THEN [R0 EXCEPT !.raised = "ResourceNotFoundError", !.used = TRUE,
                    !.page = page, !.calls = 1]
    ELSE [R0 EXCEPT !.outSeq = list_blobs(blobs, prefix), !.used = TRUE,
                    !.page = page, !.calls = 1]

list_paths(svc, blobs, path, items_per_page) ==
    LET l == ListCall(svc, blobs, path, ClampPage(items_per_page))
    IN [l EXCEPT !.outSeq = [i \in 1..Len(l.outSeq) |-> l.outSeq[i].name]]

exists(svc, blobs, check_path) ==
    LET l == list_paths(svc, blobs, check_path, PageOf(1))
        path == Head(l.outSeq)
        dir_path == IF EndsWithSlash(check_path) THEN check_path
                    ELSE AppendSlash(check_path)
        item_exists ==
            IF l.outSeq = <<>> THEN FALSE
            ELSE IF check_path = path THEN TRUE
            ELSE StartsWith(path, dir_path)
    IN IF l.raised # "none" THEN l
       ELSE [l EXCEPT !.outSeq = <<>>, !.outBool = item_exists]

isfile(svc, blobs, path) ==
    IF EndsWithSlash(path) THEN R0
    ELSE LET l == ListCall(svc, blobs, path, PageOf(1))
         IN IF l.raised # "none" THEN l
            ELSE [l EXCEPT !.outSeq = <<>>,
                           !.outBool = IF l.outSeq = <<>> THEN FALSE
                                       ELSE PyEq(Str(path), Head(l.outSeq))]

(* isdir listing under the path as given, no delimiter appended *)
isdir_NoDelimiter(svc, blobs, path) ==
    LET l == ListCall(svc, blobs, path, NoPage)
    IN IF l.raised # "none" THEN l
       ELSE [l EXCEPT !.outSeq = <<>>, !.outBool = (l.outSeq # <<>>)]

isdir(svc, blobs, path) ==
    LET dir_path == IF EndsWithSlash(path) THEN path ELSE AppendSlash(path)
        l == ListCall(svc, blobs, dir_path, NoPage)
    IN IF l.raised # "none" THEN l
       ELSE [l EXCEPT !.outSeq = <<>>, !.outBool = (l.outSeq # <<>>)]

NotMarker(fname) == ~EndsWithSlash(fname)

walk_files(svc, blobs, p, prefix) ==
    LET d == StrDiv(p, <<>>)
        path == IF ~prefix /\ ~EndsWithSlash(d.value) THEN AppendSlash(d.value)
                ELSE d.value
        l == list_paths(svc, blobs, path, NoPage)
    IN IF d.raised # "none" THEN [R0 EXCEPT !.raised = d.raised]
       ELSE IF l.raised # "none" THEN l
       ELSE [l EXCEPT !.outSeq = SelectSeq(l.outSeq, NotMarker)]

(* remove with the scheme test left out *)
remove_AnyScheme(svc, blobs, path, sch) ==
    IF svc.raised # "none"
    THEN [R0 EXCEPT !.raised = svc.raised, !.used = TRUE]
    ELSE IF ~svc.container \/ path \notin blobs
    THEN [R0 EXCEPT !.raised = "ResourceNotFoundError", !.used = TRUE,
                    !.calls = 1]
    ELSE [R0 EXCEPT !.used = TRUE, !.calls = 1, !.del = {path}]

remove(svc, blobs, path, sch) ==
    IF sch # scheme THEN [R0 EXCEPT !.raised = "NotImplementedError"]
    ELSE IF svc.raised # "none"
    THEN [R0 EXCEPT !.raised = svc.raised, !.used = TRUE]
    ELSE IF ~svc.container \/ path \notin blobs
    THEN [R0 EXCEPT !.raised = "ResourceNotFoundError", !.used = TRUE,
                    !.calls = 1]
    ELSE [R0 EXCEPT !.used = TRUE, !.calls = 1, !.del = {path}]

upload(svc, blobs, path) ==
    IF svc.raised # "none"
    THEN [R0 EXCEPT !.raised = svc.raised, !.used = TRUE]
    ELSE IF ~svc.container
    THEN [R0 EXCEPT !.raised = "ResourceNotFoundError", !.used = TRUE,
                    !.calls = 1]
    ELSE [R0 EXCEPT !.used = TRUE, !.calls = 1]

----------------------------------------------------------------------------
(* Spec: one caller, one whole operation per step *)

NoCheck == [ran |-> FALSE, resp |-> [exc |-> "none", status_code |-> 200],
            created |-> FALSE, raised |-> "none"]

NoOp ==
    [op |-> "none", path |-> <<>>, scheme |-> scheme, prefix |-> FALSE,
     req |-> NoPage, before |-> {}, res |-> R0, calls |-> 0]

ThreadsIdle ==
    /\ pc = [t \in Threads |-> "idle"]
    /\ lock = 0
    /\ got = [t \in Threads |-> 0]
    /\ nbuilt = 0
    /\ check = [t \in Threads |-> NoCheck]

Init ==
    /\ container \in BOOLEAN
    /\ store \in (IF container THEN Stores ELSE {{}})
    /\ session = 0
    /\ last = NoOp
    /\ ThreadsIdle

(* The effect of one operation that gave res when the property read gave s *)
Finish(op, path, sch, prefix, req, s, res) ==
    /\ last' = [op |-> op, path |-> path, scheme |-> sch, prefix |-> prefix,
                req |-> req, before |-> store, res |-> res,
                calls |-> res.calls + (IF res.used THEN s.calls ELSE 0)]
    /\ session' = IF res.used THEN s.session ELSE session
    /\ container' = IF res.used THEN s.container ELSE container
    /\ UNCHANGED <<pc, lock, got, nbuilt, check>>

CallExists(path, r) ==
    LET s == ReadSession(r)
    IN /\ Finish("exists", path, scheme, FALSE, PageOf(1), s, exists(s, store, path))
       /\ UNCHANGED store

CallIsfile(path, r) ==
    LET s == ReadSession(r)
    IN /\ Finish("isfile", path, scheme, FALSE, PageOf(1), s, isfile(s, store, path))
       /\ UNCHANGED store

CallIsdir(path, r) ==
    LET s == ReadSession(r)
    IN /\ Finish("isdir", path, scheme, FALSE, NoPage, s, isdir(s, store, path))
       /\ UNCHANGED store

CallListPaths(path, req, r) ==
    LET s == ReadSession(r)
    IN /\ Finish("list_paths", path, scheme, FALSE, req, s,
                 list_paths(s, store, path, req))
       /\ UNCHANGED store

CallWalkFiles(path, prefix, r) ==
    LET s == ReadSession(r)
    IN /\ Finish("walk_files", path, scheme, prefix, NoPage, s,
                 walk_files(s, store, path, prefix))
       /\ UNCHANGED store

CallRemove(path, sch, r) ==
    LET s == ReadSession(r)
        res == remove(s, store, path, sch)
    IN /\ Finish("remove", path, sch, FALSE, NoPage, s, res)
       /\ store' = store \ res.del

CallUpload(path, r) ==
    LET s == ReadSession(r)
        res == upload(s, store, path)
    IN /\ path \in store \/ Cardinality(store) < MaxBlobs
       /\ Finish("upload", path, scheme, FALSE, NoPage, s, res)
       /\ store' = IF res.raised = "none" THEN store \cup {path} ELSE store

(* The container check is made only when the instance holds no client yet *)
CheckResponses ==
    IF session = 0 THEN Responses(container)
    ELSE { [exc |-> "none", status_code |-> 200] }

Next ==
    \/ \E path \in Paths, r \in CheckResponses : CallExists(path, r)
    \/ \E path \in Paths, r \in CheckResponses : CallIsfile(path, r)
    \/ \E path \in Paths, r \in CheckResponses : CallIsdir(path, r)
    \/ \E path \in Paths, req \in PageRequests, r \in CheckResponses :
           CallListPaths(path, req, r)
    \/ \E path \in Paths, prefix \in BOOLEAN, r \in CheckResponses :
           CallWalkFiles(path, prefix, r)
    \/ \E path \in Paths, sch \in Schemes, r \in CheckResponses :
           CallRemove(path, sch, r)
    \/ \E path \in Keys, r \in CheckResponses : CallUpload(path, r)

Spec == Init /\ [][Next]_vars

----------------------------------------------------------------------------
(* SpecThreads: several threads read self.blob_service of one AzureTree.   *)
(*                                                                         *)
(* @wrap_prop(threading.Lock()) over @cached_property (funcy): the outer   *)
(* descriptor defines only __get__, so a read of the attribute finds a     *)
(* value in the instance __dict__ first and returns it without the lock.   *)
(* When the __dict__ holds none, the outer __get__ takes the lock and      *)
(* calls the inner __get__, which calls the body, stores its result in the *)
(* __dict__ and returns it; the lock is released as the with block is      *)
(* left, also when the body raises.  Neither descriptor looks at the       *)
(* __dict__ again once the lock is held.                                   *)

InitThreads ==
    /\ container \in BOOLEAN
    /\ store = {}
    /\ session = 0
    /\ last = NoOp
    /\ ThreadsIdle

(* Attribute lookup: the cached client, or on to the outer __get__ *)
Lookup(t) ==
    /\ pc[t] = "idle"
    /\ IF session # 0
       THEN /\ got' = [got EXCEPT ![t] = session]
            /\ pc' = [pc EXCEPT ![t] = "done"]
       ELSE /\ pc' = [pc EXCEPT ![t] = "waiting"]
            /\ UNCHANGED got
    /\ UNCHANGED <<store, container, session, last, lock, nbuilt, check>>

(* with ctx: the lock is taken when it is free *)
Acquire(t) ==
    /\ pc[t] = "waiting"
    /\ lock = 0
    /\ lock' = t
    /\ pc' = [pc EXCEPT ![t] = "inside"]
    /\ UNCHANGED <<store, container, session, last, got, nbuilt, check>>

(* Body with the lock released only on the way out of a body that         *)
(* returned: a body that raises leaves the lock held.                      *)
Body_LockKeptOnRaise(t, r) ==
    LET b == blob_service(r, container)
    IN /\ pc[t] = "inside"
       /\ lock = t
       /\ check' = [check EXCEPT ![t] = [ran |-> TRUE, resp |-> r,
                                         created |-> b.created,
                                         raised |-> b.raised]]
       /\ container' = b.container
       /\ IF b.raised = "none"
          THEN /\ session' = t
               /\ got' = [got EXCEPT ![t] = t]
               /\ nbuilt' = nbuilt + 1
               /\ pc' = [pc EXCEPT ![t] = "done"]
               /\ lock' = 0
          ELSE /\ pc' = [pc EXCEPT ![t] = "failed"]
               /\ UNCHANGED <<session, got, nbuilt, lock>>
       /\ UNCHANGED <<store, last>>

(* The body under the lock, the store into the __dict__, the release.      *)
(* The client built by thread t is named t.                                *)
Body(t, r) ==
    LET b == blob_service(r, container)
    IN /\ pc[t] = "inside"
       /\ lock = t
       /\ check' = [check EXCEPT ![t] = [ran |-> TRUE, resp |-> r,
                                         created |-> b.created,
                                         raised |-> b.raised]]
       /\ container' = b.container
       /\ lock' = 0
       /\ IF b.raised = "none"
          THEN /\ session' = t
               /\ got' = [got EXCEPT ![t] = t]
               /\ nbuilt' = nbuilt + 1
               /\ pc' = [pc EXCEPT ![t] = "done"]
          ELSE /\ pc' = [pc EXCEPT ![t] = "failed"]
               /\ UNCHANGED <<session, got, nbuilt>>
       /\ UNCHANGED <<store, last>>

(* The caller goes on, and may read the property again later *)
Return(t) ==
    /\ pc[t] \in {"done", "failed"}
    /\ pc' = [pc EXCEPT ![t] = "idle"]
    /\ got' = [got EXCEPT ![t] = 0]
    /\ check' = [check EXCEPT ![t] = NoCheck]
    /\ UNCHANGED <<store, container, session, last, lock, nbuilt>>

NextThreads ==
    \E t \in Threads :
        \/ Lookup(t)
        \/ Acquire(t)
        \/ \E r \in Responses(container) : Body(t, r)
        \/ Return(t)

SpecThreads == InitThreads /\ [][NextThreads]_vars

(* A thread that holds the lock goes on running the body: the check of the *)
(* container returns or raises.  Nothing is assumed about which waiting    *)
(* thread is given the lock.                                               *)
FairThreads ==
    SpecThreads
        /\ \A t \in Threads : WF_vars(\E r \in Responses(container) : Body(t, r))

----------------------------------------------------------------------------
(* Properties *)

(* The prefix that names what lies under path: path itself when it ends    *)
(* with the delimiter, else path with the delimiter appended.              *)
DirPrefix(path) == IF EndsWithSlash(path) THEN path ELSE AppendSlash(path)

(* An error of the service or of the session, not of the operation *)
ServiceErrors == { "HttpResponseError", "ResourceNotFoundError" }

(* A session that was built, on a container that exists *)
OkSvc == [raised |-> "none", session |-> 1, container |-> TRUE, calls |-> 0]

Min(a, b) == IF a < b THEN a ELSE b

(* C1: exists(P) is true iff a blob is named exactly P or some blob's name *)
(* starts with P followed by the delimiter (P itself when it ends with     *)
(* the delimiter).                                                         *)
C1_ExistsIffFileOrDir ==
    (last.op = "exists" /\ last.res.raised = "none")
        => (last.res.outBool <=>
               \/ last.path \in last.before
               \/ \E k \in last.before : StartsWith(k, DirPrefix(last.path)))

(* C2: however the threads interleave, one client is built for the         *)
(* instance, and every caller is handed the client the instance holds.     *)
C2_OneClientForAllThreads ==
    /\ nbuilt <= 1
    /\ \A t \in Threads : got[t] # 0 => got[t] = session

(* C3: isfile(P) is false when P ends with the delimiter, and otherwise    *)
(* true iff the first blob listed under the prefix P is named exactly P.   *)
C3_IsfileIffFirstListedIsPath ==
    (last.op = "isfile" /\ last.res.raised = "none")
        => (last.res.outBool <=>
               /\ ~EndsWithSlash(last.path)
               /\ list_blobs(last.before, last.path) # <<>>
               /\ Head(list_blobs(last.before, last.path)).name = last.path)

C5_WalkFilesYieldsFilesUnder ==
    (last.op = "walk_files" /\ ~last.prefix /\ last.res.raised \notin ServiceErrors)
        => /\ { last.res.outSeq[i] : i \in 1..Len(last.res.outSeq) }
                  = { k \in last.before : /\ StartsWith(k, DirPrefix(last.path))
                                          /\ ~EndsWithSlash(k) }
           /\ \A i, j \in 1..Len(last.res.outSeq) :
                  last.res.outSeq[i] = last.res.outSeq[j] => i = j

(* C6: walk_files(P) yields no path iff exists(P) is false. *)
C6_WalkFilesEmptyIffNotExists ==
    (last.op = "walk_files" /\ ~last.prefix /\ last.res.raised \notin ServiceErrors)
        => (last.res.outSeq = <<>>
               <=> ~exists(OkSvc, last.before, last.path).outBool)

(* C7: remove(P) with a scheme other than the tree's raises                *)
(* NotImplementedError with no request made, the session not built and the *)
(* blobs unchanged; with the tree's scheme a remove that returns has       *)
(* deleted the blob named P and no other, and one that raises has deleted  *)
(* nothing.                                                                *)
C7_Remove ==
    [][ last'.op = "remove" =>
          IF last'.scheme # scheme
          THEN /\ last'.res.raised = "NotImplementedError"
               /\ last'.calls = 0
               /\ session' = session
               /\ container' = container
               /\ store' = store
          ELSE IF last'.res.raised = "none"
          THEN /\ last'.path \in store
               /\ store' = store \ {last'.path}
          ELSE store' = store ]_vars

C7_Witness ==
    /\ last.op = "remove"
    /\ last.scheme # scheme
    /\ last.path \in store
    /\ session = 0
    /\ last.res.raised = "NotImplementedError"

(* C9: _list_paths hands list_blobs the requested page size capped at      *)
(* 5000, or none when none was requested, and raises nothing of its own.   *)
C9_PageSizeClamped ==
    last.op = "list_paths"
        => /\ last.res.raised \in {"none"} \cup ServiceErrors
           /\ last.res.calls >= 1
                  => last.res.page =
                         IF last.req.given
                         THEN PageOf(Min(last.req.n, 5000))
                         ELSE NoPage

C9_Witness ==
    /\ last.op = "list_paths"
    /\ last.req = PageOf(50000)
    /\ last.res.page = PageOf(5000)
    /\ last.res.raised = "none"
    /\ last.res.outSeq # <<>>

C10_FailureCachesNothingAndFreesLock ==
    /\ [][ /\ \A t \in Threads :
                 (pc[t] = "inside" /\ pc'[t] = "failed") =>
                     /\ session' = session
                     /\ lock' = 0
           /\ lock' # 0 => pc'[lock'] = "inside"
           /\ session' # session =>
                 \E t \in Threads : /\ pc[t] = "inside"
                                    /\ pc'[t] = "done"
                                    /\ check'[t].raised = "none"
                                    /\ session' = t ]_vars
    /\ (lock # 0) ~> (lock = 0)

C10_Witness ==
    \E t, u \in Threads :
        /\ pc[t] = "failed"
        /\ check[t].raised = "HttpResponseError"
        /\ pc[u] = "inside"
        /\ lock = u
        /\ session = 0

====
